---- MODULE Spec2Model ----
(***************************************************************************)
(* Model of the HTTP facade src/api/api.py of the creative builder: the    *)
(* handlers create_turn, get_session, get_session_turns, get_turn,         *)
(* get_artifact, health_check and the lazy connection get_db_handles.      *)
(*                                                                         *)
(* The facade delegates to run_turn (src.api_stub.runner), SessionRepo and *)
(* TurnRepo (src.db.repositories) and connect_mongo (src.db.mongo).  Their *)
(* code is not part of the source tree at hand; they are modelled from the *)
(* written specification and every such definition is marked in a comment  *)
(* "(specification)".                                                      *)
(*                                                                         *)
(* Python values: Optional[x] is a sequence, <<>> for None and <<v>> for   *)
(* the value v; a JSON body is a record whose DOMAIN is the set of keys    *)
(* the client sent; identifiers of sessions and turns are numbers standing *)
(* for the identifier strings; an exception is the string str(e).          *)
(***************************************************************************)
EXTENDS Integers, Sequences, FiniteSets, Bags, TLC

VARIABLES
    sessions,   \* Store: the Session records, [id, title]
    turns,      \* Store: the Turn records, [id, session_id, turn_index]
    inflight,   \* the CreateTurn requests being served: a bag of records
    last,       \* the CreateTurn request answered last, with its answer
    settings_,  \* api.py:59  _settings
    handles_,   \* api.py:60  _handles
    connects,   \* number of connect_mongo calls that completed successfully
    resp,       \* the last response of a read handler, with what the Store did
    files,      \* the regular files present on storage (normalised paths)
    areq        \* the GetArtifact request being served

vars == <<sessions, turns, inflight, last, settings_, handles_, connects, resp, files, areq>>

None == <<>>
Some(v) == <<v>>

IdleArtifact == [pc |-> "idle"]

\* Python truthiness of an Optional[str]: None and "" are falsy.
Truthy(o) == o # None /\ o[1] # ""

\* Python's  a or b  on Optional[str] values.
PyOr(a, b) == IF Truthy(a) THEN a ELSE b

-----------------------------------------------------------------------------
(* Bounds of the model.                                                    *)

MaxSessions == 2
MaxTurns == 3
NSlots == 2

\* The error messages str(e) an exception of a collaborator may carry.
Msgs == {"boom", "quota exceeded"}

\* The titles a client may send.
Titles == {"", "Promo"}

Compliance == {"pass", "fail"}

-----------------------------------------------------------------------------
(* CreateTurn: POST /api/v1/turns                                          *)

\* The JSON bodies: session_id is left out or names a stored session;
\* title_if_new is left out, null, or a string.
Bodies ==
    LET sids == {Some(s.id) : s \in sessions}
        tits == {None} \cup {Some(t) : t \in Titles}
    IN  {[k \in {} |-> None]}
        \cup {[session_id |-> s] : s \in sids}
        \cup {[title_if_new |-> t] : t \in tits}
        \cup {[session_id |-> s, title_if_new |-> t] : s \in sids, t \in tits}

\* pydantic's parse of the body into a TurnRequest: a key left out takes the
\* field's default.
TurnRequest(body) ==
    [session_id   |-> IF "session_id" \in DOMAIN body THEN body.session_id ELSE None,
     title_if_new |-> IF "title_if_new" \in DOMAIN body THEN body.title_if_new
                      ELSE Some("New Session")]

\* The keyword arguments create_turn hands to run_turn.
RunTurnArgs(request) ==
    [session_id   |-> request.session_id,
     title_if_new |-> PyOr(request.title_if_new, Some("New Session"))]

\* Faulty variant: the response model also requires a field run_turn does not return.
TurnResponseRequiredStatus ==
    {"session_id", "turn_id", "turn_index", "compliance_result", "status"}

\* The fields a TurnResponse cannot be built without.
TurnResponseRequired == {"session_id", "turn_id", "turn_index", "compliance_result"}

\* Faulty variant: the handler answers 500 without the exception's message.
CreateTurnExceptNoMessage(e) ==
    [status |-> 500, detail |-> "Turn generation failed", body |-> None]

\* except Exception as e: raise HTTPException(500, f"Turn generation failed: {e}")
CreateTurnExcept(e) ==
    [status |-> 500, detail |-> "Turn generation failed: " \o e, body |-> None]

\* return TurnResponse(**result), inside the same try: a result pydantic
\* rejects is an exception like any other.
CreateTurnReturn(result) ==
    IF TurnResponseRequired \subseteq DOMAIN result
    THEN [status |-> 200, detail |-> "",
          body |-> Some([session_id |-> result.session_id,
                         turn_id |-> result.turn_id,
                         turn_index |-> result.turn_index,
                         compliance_result |-> result.compliance_result,
                         summary |-> result.summary,
                         artifacts |-> result.artifacts])]
    ELSE CreateTurnExcept("validation error for TurnResponse")

\* (specification) the index of the first turn of a session.
StartIndex == 0

\* (specification) Store.CreateSession: one insert, the identifier is fresh.
CreateSession(S, title) == S \cup {[id |-> Cardinality(S) + 1, title |-> title]}

\* (specification) the session run_turn works in: a new one when no
\* session_id was supplied, titled title_if_new.
RunTurnSessionId(args, S) ==
    IF args.session_id = None THEN Cardinality(S) + 1 ELSE args.session_id[1]

\* Faulty variant: the index counts the turns of every session.
NextTurnIndexAllSessions(T, sid) == StartIndex + Cardinality(T)

\* (specification) the index of the next turn of session sid.
NextTurnIndex(T, sid) == StartIndex + Cardinality({t \in T : t.session_id = sid})

\* (specification) Store.CreateTurn: one insert, the identifier is fresh.
CreateTurn(T, sid) ==
    T \cup {[id |-> Cardinality(T) + 1, session_id |-> sid,
             turn_index |-> NextTurnIndex(T, sid)]}

\* A request in flight: its body, the number of run_turn calls made for it,
\* and the number of turns the Store held when it was entered.
Running(body) == [body |-> body, calls |-> 1, seen |-> Cardinality(turns)]

NoLast == [op |-> "none"]

InFlightNew ==
    {q \in BagToSet(inflight) : TurnRequest(q.body).session_id = None}

NewInFlight ==
    IF InFlightNew = {} THEN 0
    ELSE BagCardinality([q \in InFlightNew |-> inflight[q]])

\* The handler is entered and calls run_turn (api.py:111).
CreateTurnCall(body) ==
    /\ BagCardinality(inflight) < NSlots
    /\ Cardinality(turns) + BagCardinality(inflight) < MaxTurns
    /\ TurnRequest(body).session_id = None
         => Cardinality(sessions) + NewInFlight < MaxSessions
    /\ inflight' = inflight (+) SetToBag({Running(body)})
    /\ UNCHANGED <<sessions, turns, last>>

\* (specification) run_turn raises: the pipeline or the Store failed, and
\* nothing was persisted.  The handler's except clause answers.
RunTurnRaises(q, e) ==
    /\ BagIn(q, inflight)
    /\ inflight' = inflight (-) SetToBag({q})
    /\ last' = [op |-> "create_turn", body |-> q.body, calls |-> q.calls,
                seen |-> q.seen, raised |-> Some(e), newS |-> {}, newT |-> {},
                out |-> CreateTurnExcept(e)]
    /\ UNCHANGED <<sessions, turns>>

\* (specification) what a successful run_turn commits to the Store: the new
\* session when no session_id was supplied, and the turn.
RunTurnStore(args, S, T) ==
    [S |-> IF args.session_id = None
           THEN CreateSession(S, args.title_if_new[1]) ELSE S,
     T |-> CreateTurn(T, RunTurnSessionId(args, S))]

\* (specification) run_turn returns: the generation succeeded and the turn
\* (with its session, when new) is committed.  The handler builds the
\* TurnResponse from the result.
RunTurnReturns(q, c) ==
    /\ BagIn(q, inflight)
    /\ inflight' = inflight (-) SetToBag({q})
    /\ LET args == RunTurnArgs(TurnRequest(q.body))
           sid == RunTurnSessionId(args, sessions)
           st == RunTurnStore(args, sessions, turns)
           result == [session_id |-> sid, turn_id |-> Cardinality(turns) + 1,
                      turn_index |-> NextTurnIndex(turns, sid),
                      compliance_result |-> c, summary |-> None, artifacts |-> <<>>]
       IN  /\ sessions' = st.S
           /\ turns' = st.T
           /\ last' = [op |-> "create_turn", body |-> q.body, calls |-> q.calls,
                       seen |-> q.seen, raised |-> None,
                       newS |-> {s.id : s \in st.S \ sessions},
                       newT |-> {t.id : t \in st.T \ turns},
                       out |-> CreateTurnReturn(result)]

NoResp == [op |-> "none"]

InitTurns ==
    /\ sessions = {} /\ turns = {}
    /\ inflight = EmptyBag /\ last = NoLast
    /\ settings_ = None /\ handles_ = None /\ connects = 0
    /\ resp = NoResp
    /\ files = {} /\ areq = IdleArtifact

ReadsUnchanged == UNCHANGED <<settings_, handles_, connects, resp, files, areq>>

NextTurns ==
    \/ \E body \in Bodies : CreateTurnCall(body) /\ ReadsUnchanged
    \/ \E q \in BagToSet(inflight) : \E e \in Msgs : RunTurnRaises(q, e) /\ ReadsUnchanged
    \/ \E q \in BagToSet(inflight) : \E c \in Compliance :
         RunTurnReturns(q, c) /\ ReadsUnchanged

SpecTurns == InitTurns /\ [][NextTurns]_vars

Created == last.op = "create_turn"

\* C1: a CreateTurn request whose run_turn call raised ends with HTTP 500
\* whose detail carries the exception's message, has no response body, and
\* called run_turn exactly once.
C1_RunnerErrorIs500 ==
    (Created /\ last.raised # None) =>
        /\ last.out.status = 500
        /\ last.out.detail = "Turn generation failed: " \o last.raised[1]
        /\ last.out.body = None
        /\ last.calls = 1

C1_Witness ==
    Created /\ last.raised = Some("boom") /\ last.out.status = 500

\* C2: a CreateTurn request that ended with 500 inserted no Session and no
\* Turn; one that ended with 200 inserted exactly one Turn, and exactly one
\* Session when it carried no session id and none otherwise; no request ends
\* with another status.
C2_AllOrNothing ==
    Created =>
        /\ last.out.status \in {200, 500}
        /\ last.out.status = 500 => last.newS = {} /\ last.newT = {}
        /\ last.out.status = 200 =>
              /\ Cardinality(last.newT) = 1
              /\ last.newT \subseteq {t.id : t \in turns}
              /\ last.newS \subseteq {s.id : s \in sessions}
              /\ Cardinality(last.newS) =
                    IF TurnRequest(last.body).session_id = None THEN 1 ELSE 0

\* A request failed while the Store already held records.
C2_Witness ==
    Created /\ last.out.status = 500 /\ sessions # {} /\ turns # {}

TurnsOf(sid) == {t \in turns : t.session_id = sid}

\* C3: in every session the turn indices are pairwise distinct and are
\* exactly StartIndex, StartIndex + 1, ... without a gap, also when requests
\* for the same session were served at the same time; every turn belongs to
\* a stored session.
C3_TurnIndexGapFree ==
    /\ \A t \in turns : \E s \in sessions : s.id = t.session_id
    /\ \A s \in sessions :
         LET idx == {t.turn_index : t \in TurnsOf(s.id)}
             n == Cardinality(TurnsOf(s.id))
         IN  /\ Cardinality(idx) = n
             /\ idx = StartIndex .. (StartIndex + n - 1)

\* A request for an existing session committed its turn after another
\* request for the same session, entered no later, committed one while the
\* first was in flight.
C3_Witness ==
    /\ Created /\ last.out.status = 200
    /\ TurnRequest(last.body).session_id # None
    /\ \E t \in turns :
         /\ t.session_id = last.out.body[1].session_id
         /\ t.id > last.seen
         /\ t.id < last.out.body[1].turn_id

\* C4 (as claimed): a successful request without session id created one
\* session whose title is the title_if_new string it carried, whatever the
\* string, and "New Session" when it carried none; a request with a session
\* id created no session.
C4_TitleAsRequested ==
    (Created /\ last.out.status = 200) =>
        LET b == last.body
            asked == IF "title_if_new" \in DOMAIN b /\ b.title_if_new # None
                     THEN b.title_if_new[1] ELSE "New Session"
        IN  IF TurnRequest(b).session_id = None
            THEN \E s \in sessions : last.newS = {s.id} /\ s.title = asked
            ELSE last.newS = {}

-----------------------------------------------------------------------------
(* The read handlers and the lazy Store connection.                        *)

MaxQuery == 2

DefaultLimit == 50
DefaultSkip == 0

\* What a try block ends with: a returned value, an HTTPException raised by
\* the handler itself, or any other exception.
Return(v) == [kind |-> "return", value |-> v]
HTTPException(code, detail) == [kind |-> "HTTPException", status |-> code, detail |-> detail]
Exception(msg) == [kind |-> "Exception", msg |-> msg]

\* What the collaborators do during one request: the one that raises when
\* it is called, if any, and the message of its exception.
Fails == {"none", "load", "connect", "store"}

ErrorOf(fail) ==
    CASE fail = "load" -> "MONGO_URI is not set"
      [] fail = "connect" -> "connection refused"
      [] fail = "store" -> ""
      [] OTHER -> "none"

Envs == {[fail |-> k, msg |-> ErrorOf(k)] : k \in Fails}

\* Faulty variant: no test of _handles: every call loads the settings and connects.
GetDbHandlesAlways(env) ==
    IF env.fail = "load"
    THEN [settings |-> settings_, handles |-> handles_, connects |-> connects,
          raised |-> Some(env.msg)]
    ELSE IF env.fail = "connect"
    THEN [settings |-> Some("settings"), handles |-> handles_, connects |-> connects,
          raised |-> Some(env.msg)]
    ELSE [settings |-> Some("settings"), handles |-> Some(connects + 1),
          connects |-> connects + 1, raised |-> None]

\* get_db_handles(): the globals after the call and the exception it raised,
\* if any.  The handles object made by the n-th successful connect_mongo is n.
GetDbHandles(env) ==
    IF handles_ # None
    THEN [settings |-> settings_, handles |-> handles_, connects |-> connects,
          raised |-> None]
    ELSE IF env.fail = "load"
    THEN [settings |-> settings_, handles |-> None, connects |-> connects,
          raised |-> Some(env.msg)]
    ELSE IF env.fail = "connect"
    THEN [settings |-> Some("settings"), handles |-> None, connects |-> connects,
          raised |-> Some(env.msg)]
    ELSE [settings |-> Some("settings"), handles |-> Some(connects + 1),
          connects |-> connects + 1, raised |-> None]

SetGlobals(h) ==
    /\ settings_' = h.settings
    /\ handles_' = h.handles
    /\ connects' = h.connects

\* What the Store did in a request, as seen from outside the handler.
StoreDid(h, env, found) ==
    IF h.raised # None THEN "notcalled"
    ELSE IF env.fail = "store" THEN "raise"
    ELSE IF found THEN "found" ELSE "absent"

\* Faulty variant: the probe read is left out.
HealthCheckTryNoProbe(h, env) ==
    IF h.raised # None THEN Exception(h.raised[1]) ELSE Return("connected")

\* health_check, the try block: get_db_handles, then find_one on sessions.
HealthCheckTry(h, env) ==
    IF h.raised # None THEN Exception(h.raised[1])
    ELSE IF env.fail = "store" THEN Exception(env.msg)
    ELSE Return("connected")

\* health_check, the except clause and the response.
HealthCheckResponse(try) ==
    [kind |-> "response", status |-> "healthy", version |-> "1.0.0",
     database |-> IF try.kind = "return" THEN try.value ELSE "error: " \o try.msg]

health_check(env) ==
    LET h == GetDbHandles(env) IN
    /\ SetGlobals(h)
    /\ resp' = [op |-> "health", had |-> handles_ # None, obtained |-> h.raised = None,
                store |-> StoreDid(h, env, FALSE),
                out |-> HealthCheckResponse(HealthCheckTry(h, env))]
    /\ UNCHANGED <<sessions, turns, inflight, last, files, areq>>

\* (specification) SessionRepo.get_session and TurnRepo.get_turn: the record,
\* or None when there is none.
RepoGet(records, id) ==
    IF \E x \in records : x.id = id
    THEN Some(CHOOSE x \in records : x.id = id) ELSE None

\* get_session and get_turn, the try block.
GetTry(h, env, records, id, what) ==
    IF h.raised # None THEN Exception(h.raised[1])
    ELSE IF env.fail = "store" THEN Exception(env.msg)
    ELSE LET x == RepoGet(records, id) IN
         IF x = None THEN HTTPException(404, what \o " not found") ELSE Return(x[1])

\* Faulty variant: no  except HTTPException: raise  clause before  except Exception.
ReadExceptCatchAll(try) ==
    IF try.kind = "return" THEN [status |-> 200, detail |-> "", body |-> Some(try.value)]
    ELSE IF try.kind = "HTTPException"
    THEN [status |-> 500, detail |-> try.detail, body |-> None]
    ELSE [status |-> 500, detail |-> try.msg, body |-> None]

\* The except clauses of get_session and get_turn: an HTTPException passes,
\* any other exception becomes HTTPException(500, str(e)).
ReadExcept(try) ==
    IF try.kind = "return" THEN [status |-> 200, detail |-> "", body |-> Some(try.value)]
    ELSE IF try.kind = "HTTPException"
    THEN [status |-> try.status, detail |-> try.detail, body |-> None]
    ELSE [status |-> 500, detail |-> try.msg, body |-> None]

get_session(env, id) ==
    LET h == GetDbHandles(env) IN
    /\ SetGlobals(h)
    /\ resp' = [op |-> "get_session", id |-> id, had |-> handles_ # None,
                obtained |-> h.raised = None,
                store |-> StoreDid(h, env, \E x \in sessions : x.id = id),
                out |-> ReadExcept(GetTry(h, env, sessions, id, "Session"))]
    /\ UNCHANGED <<sessions, turns, inflight, last, files, areq>>

get_turn(env, id) ==
    LET h == GetDbHandles(env) IN
    /\ SetGlobals(h)
    /\ resp' = [op |-> "get_turn", id |-> id, had |-> handles_ # None,
                obtained |-> h.raised = None,
                store |-> StoreDid(h, env, \E x \in turns : x.id = id),
                out |-> ReadExcept(GetTry(h, env, turns, id, "Turn"))]
    /\ UNCHANGED <<sessions, turns, inflight, last, files, areq>>

Min(a, b) == IF a < b THEN a ELSE b
Max(a, b) == IF a > b THEN a ELSE b

\* (specification) TurnRepo.get_turns_by_session: the turns of the session by
\* ascending turn index, the first skip of them dropped, at most limit kept.
GetTurnsBySession(T, sid, limit, skip) ==
    LET mine == {t \in T : t.session_id = sid}
        n == Cardinality(mine)
        sorted == CHOOSE q \in [1..n -> mine] :
                     \A i, j \in 1..n : i < j => q[i].turn_index < q[j].turn_index
        cnt == Max(0, Min(limit, n - skip))
    IN  [i \in 1..cnt |-> sorted[skip + i]]

\* The query of a request: limit and skip, each left out or a number.
Queries == [limit : {None} \cup {Some(n) : n \in 0..MaxQuery},
            skip  : {None} \cup {Some(n) : n \in 0..MaxQuery}]

\* Faulty variant: limit and skip change places in the call of the repository.
GetSessionTurnsArgsSwapped(query) ==
    [limit |-> IF query.skip = None THEN DefaultSkip ELSE query.skip[1],
     skip  |-> IF query.limit = None THEN DefaultLimit ELSE query.limit[1]]

\* get_session_turns(session_id, limit=50, skip=0): the arguments the
\* handler passes on to the repository.
GetSessionTurnsArgs(query) ==
    [limit |-> IF query.limit = None THEN DefaultLimit ELSE query.limit[1],
     skip  |-> IF query.skip = None THEN DefaultSkip ELSE query.skip[1]]

\* The except clause of get_session_turns: any exception becomes
\* HTTPException(500, str(e)).
GetSessionTurnsExcept(try) ==
    IF try.kind = "return" THEN [status |-> 200, detail |-> "", body |-> Some(try.value)]
    ELSE IF try.kind = "HTTPException"
    THEN [status |-> 500, detail |-> try.detail, body |-> None]
    ELSE [status |-> 500, detail |-> try.msg, body |-> None]

\* get_session_turns, the try block.
GetSessionTurnsTry(h, env, sid, query) ==
    IF h.raised # None THEN Exception(h.raised[1])
    ELSE IF env.fail = "store" THEN Exception(env.msg)
    ELSE LET a == GetSessionTurnsArgs(query)
             ts == GetTurnsBySession(turns, sid, a.limit, a.skip)
         IN  Return([session_id |-> sid, count |-> Len(ts), turns |-> ts])

get_session_turns(env, sid, query) ==
    LET h == GetDbHandles(env) IN
    /\ SetGlobals(h)
    /\ resp' = [op |-> "get_session_turns", id |-> sid, query |-> query,
                had |-> handles_ # None, obtained |-> h.raised = None,
                store |-> StoreDid(h, env, TRUE),
                out |-> GetSessionTurnsExcept(GetSessionTurnsTry(h, env, sid, query))]
    /\ UNCHANGED <<sessions, turns, inflight, last, files, areq>>

\* The contents of the Store after the successful requests of a history: a
\* sequence naming for each request the session it addressed, 0 for none.
RECURSIVE StoreAfter(_)
StoreAfter(hist) ==
    IF hist = <<>> THEN [S |-> {}, T |-> {}]
    ELSE LET st == StoreAfter(SubSeq(hist, 1, Len(hist) - 1))
             a == hist[Len(hist)]
             args == [session_id |-> IF a = 0 THEN None ELSE Some(a),
                      title_if_new |-> Some("New Session")]
         IN  RunTurnStore(args, st.S, st.T)

Histories ==
    {hist \in UNION {[1..n -> 0..MaxSessions] : n \in 0..MaxTurns} :
        \A i \in 1..Len(hist) :
            LET made == Cardinality({j \in 1..(i - 1) : hist[j] = 0}) IN
            IF hist[i] = 0 THEN made < MaxSessions ELSE hist[i] <= made}

InitReads ==
    /\ \E hist \in Histories :
         /\ sessions = StoreAfter(hist).S
         /\ turns = StoreAfter(hist).T
    /\ inflight = EmptyBag /\ last = NoLast
    /\ settings_ = None /\ handles_ = None /\ connects = 0
    /\ resp = NoResp
    /\ files = {} /\ areq = IdleArtifact

NextReads ==
    \/ \E env \in Envs : health_check(env)
    \/ \E env \in Envs : \E id \in 1..(MaxSessions + 1) : get_session(env, id)
    \/ \E env \in Envs : \E id \in 1..(MaxTurns + 1) : get_turn(env, id)
    \/ \E env \in Envs : \E id \in 1..(MaxSessions + 1) : \E query \in Queries :
         get_session_turns(env, id, query)

SpecReads == InitReads /\ [][NextReads]_vars

\* C5: get_session and get_turn answer 200 with the stored record exactly
\* when the Store found it, 404 exactly when the Store reported it absent,
\* and 500 exactly when obtaining the connection or the Store read raised.
C5_AbsentIsNot500 ==
    resp.op \in {"get_session", "get_turn"} =>
        LET recs == IF resp.op = "get_session" THEN sessions ELSE turns
            failed == ~resp.obtained \/ resp.store = "raise"
        IN  /\ resp.out.status \in {200, 404, 500}
            /\ resp.out.status = 500 <=> failed
            /\ resp.out.status = 404 <=> resp.store = "absent"
            /\ resp.out.status = 200 <=> resp.store = "found"
            /\ resp.out.status = 200 =>
                 \E x \in recs : x.id = resp.id /\ resp.out.body = Some(x)

C5_Witness ==
    /\ resp.op = "get_session"
    /\ resp.store = "absent"
    /\ resp.out.status = 404
    /\ sessions # {}

\* C6: when the Store answers, get_session_turns answers 200 with the
\* session id, with count the number of turns returned, and with the turns
\* at positions skip+1 .. skip+limit of the session's turns in ascending
\* turn index (limit 50 and skip 0 when left out); none when the session has
\* no turns or does not exist.
C6_OffsetSlice ==
    resp.op = "get_session_turns" /\ resp.obtained /\ resp.store # "raise" =>
        LET limit == IF resp.query.limit = None THEN 50 ELSE resp.query.limit[1]
            skip == IF resp.query.skip = None THEN 0 ELSE resp.query.skip[1]
            n == Cardinality(TurnsOf(resp.id))
            cnt == IF n - skip <= 0 THEN 0 ELSE IF limit < n - skip THEN limit ELSE n - skip
        IN  /\ resp.out.status = 200
            /\ resp.out.body # None
            /\ LET b == resp.out.body[1] IN
               /\ b.session_id = resp.id
               /\ b.count = cnt
               /\ Len(b.turns) = cnt
               /\ \A i \in 1..cnt :
                    /\ b.turns[i] \in TurnsOf(resp.id)
                    /\ b.turns[i].turn_index = StartIndex + skip + i - 1

\* limit=1, skip=1 on a session with 3 turns: exactly the second turn.
C6_Witness ==
    /\ resp.op = "get_session_turns"
    /\ resp.query = [limit |-> Some(1), skip |-> Some(1)]
    /\ Cardinality(TurnsOf(resp.id)) = 3
    /\ resp.out.status = 200
    /\ resp.out.body[1].count = 1
    /\ resp.out.body[1].turns[1].turn_index = StartIndex + 1

\* C9: health_check always answers with a HealthResponse whose status and
\* version are set; its database field is "connected" exactly when the
\* connection was obtained and the probe read did not raise, and otherwise
\* "error: " followed by the exception's message.
C9_HealthNeverRaises ==
    resp.op = "health" =>
        /\ resp.out.kind = "response"
        /\ resp.out.status = "healthy"
        /\ resp.out.version = "1.0.0"
        /\ resp.out.database = "connected" <=> (resp.obtained /\ resp.store # "raise")
        /\ resp.out.database # "connected" =>
             resp.out.database \in {"error: " \o ErrorOf(k) : k \in Fails \ {"none"}}

\* The probe read failed on an established connection.
C9_Witness ==
    /\ resp.op = "health"
    /\ resp.had
    /\ resp.store = "raise"
    /\ resp.out.database = "error: "

\* C10: connect_mongo succeeds at most once; once set, the handles are never
\* changed or reset and no request reconnects; a request whose
\* initialization failed leaves the handles unset, and a request that finds
\* them unset and whose collaborators work sets them.
C10_ConnectOnce ==
    [][/\ connects' <= 1
       /\ (handles_' # None) <=> (connects' = 1)
       /\ handles_ # None => handles_' = handles_ /\ connects' = connects
       /\ (handles_ = None /\ ~resp'.obtained) => handles_' = None
       /\ (handles_ = None /\ resp'.obtained) => handles_' = Some(1)]_vars

\* A request reused the handles an earlier request had set.
C10_Witness ==
    /\ resp.op # "none"
    /\ resp.had
    /\ resp.obtained
    /\ handles_ = Some(1)
    /\ connects = 1

-----------------------------------------------------------------------------
(* GetArtifact: GET /api/v1/artifacts/{session_id}/{turn_id}/{filename}    *)
(*                                                                         *)
(* A path is the sequence of its segments, relative to the working         *)
(* directory of the process.  The route hands the handler three segments,  *)
(* each non-empty and without "/"; "." and ".." are such segments.  The    *)
(* storage holds regular files; a directory exists while a file lies       *)
(* below it, and the working directory and its ancestors always exist.     *)

Segs == {"s1", "t1", "a.png", ".env", ".", ".."}

\* The files other actors (the pipeline, an operator, a cleanup job) may
\* put on storage and remove again.
AllFiles == {<<"artifacts", "s1", "t1", "a.png">>, <<".env">>}

ArtifactRoot == <<"artifacts">>

IsPrefix(p, q) == Len(p) <= Len(q) /\ SubSeq(q, 1, Len(p)) = p

DirExists(d) ==
    \/ \A i \in 1..Len(d) : d[i] = ".."
    \/ \E f \in files : Len(d) < Len(f) /\ IsPrefix(d, f)

\* The operating system's walk of a path from the directory cur: the place
\* it names, or None when a directory on the way does not exist.
RECURSIVE Walk(_, _)
Walk(cur, rest) ==
    IF rest = <<>> THEN Some(cur)
    ELSE IF ~DirExists(cur) THEN None
    ELSE LET seg == Head(rest) IN
         IF seg = "." THEN Walk(cur, Tail(rest))
         ELSE IF seg = ".."
         THEN IF cur = <<>> \/ cur[Len(cur)] = ".."
              THEN Walk(cur \o <<"..">>, Tail(rest))
              ELSE Walk(SubSeq(cur, 1, Len(cur) - 1), Tail(rest))
         ELSE Walk(cur \o <<seg>>, Tail(rest))

\* os.stat(path): "file", "dir" or "missing", with the place found.
Stat(path) ==
    LET w == Walk(<<>>, path) IN
    IF w = None THEN [type |-> "missing", at |-> <<>>]
    ELSE IF w[1] \in files THEN [type |-> "file", at |-> w[1]]
    ELSE IF DirExists(w[1]) THEN [type |-> "dir", at |-> w[1]]
    ELSE [type |-> "missing", at |-> <<>>]

\* artifact_path = f"artifacts/{session_id}/{turn_id}/{filename}"
ArtifactPath(session_id, turn_id, filename) ==
    <<"artifacts", session_id, turn_id, filename>>

\* The handler's body: os.path.exists decides between HTTPException(404) and
\* the FileResponse, which is built without touching the file.
GetArtifactCheck(session_id, turn_id, filename) ==
    /\ areq.pc = "idle"
    /\ LET path == ArtifactPath(session_id, turn_id, filename) IN
       areq' = IF Stat(path).type = "missing"
               THEN [pc |-> "done", path |-> path, checked |-> "missing",
                     found |-> "missing",
                     out |-> [status |-> 404, detail |-> "Artifact not found"]]
               ELSE [pc |-> "serve", path |-> path, checked |-> Stat(path).type]
    /\ UNCHANGED files

\* The FileResponse is sent: it stats the path and raises RuntimeError when
\* there is no regular file; nothing catches it, and the server answers with
\* its own 500 for an unhandled exception.
GetArtifactServe ==
    /\ areq.pc = "serve"
    /\ LET st == Stat(areq.path) IN
       areq' = [pc |-> "done", path |-> areq.path, checked |-> areq.checked,
                found |-> st.type,
                out |-> IF st.type = "file"
                        THEN [status |-> 200, served |-> st.at]
                        ELSE [status |-> 500, unhandled |-> "RuntimeError"]]
    /\ UNCHANGED files

GetArtifactDone ==
    /\ areq.pc = "done"
    /\ areq' = IdleArtifact
    /\ UNCHANGED files

\* Another actor writes or removes a file.
FsCreate(f) == f \notin files /\ files' = files \cup {f} /\ UNCHANGED areq
FsRemove(f) == f \in files /\ files' = files \ {f} /\ UNCHANGED areq

InitFs ==
    /\ files = {} /\ areq = IdleArtifact
    /\ sessions = {} /\ turns = {}
    /\ inflight = EmptyBag /\ last = NoLast
    /\ settings_ = None /\ handles_ = None /\ connects = 0
    /\ resp = NoResp

DbUnchanged ==
    UNCHANGED <<sessions, turns, inflight, last, settings_, handles_, connects, resp>>

NextFs ==
    \/ \E s \in Segs : \E t \in Segs : \E f \in Segs :
         GetArtifactCheck(s, t, f) /\ DbUnchanged
    \/ GetArtifactServe /\ DbUnchanged
    \/ GetArtifactDone /\ DbUnchanged
    \/ \E f \in AllFiles : FsCreate(f) /\ DbUnchanged
    \/ \E f \in AllFiles : FsRemove(f) /\ DbUnchanged

SpecFs == InitFs /\ [][NextFs]_vars

\* C7 (as claimed): a request for a path with nothing behind it when it is
\* answered ends with 404, also when the file went away after the existence
\* test, and not with an unhandled error; a request whose file is there is
\* answered with the file.  (checked is what the path named at the existence
\* test and found what it named when the answer was made; a path that named
\* a directory is not part of the claim.)
C7_AbsentIs404 ==
    (areq.pc = "done" /\ areq.checked # "dir") =>
        /\ areq.found = "missing" =>
             areq.out.status = 404 /\ "unhandled" \notin DOMAIN areq.out
        /\ areq.found = "file" => areq.out.status = 200

\* C8 (as claimed): every file served lies below the artifact root.
C8_ServedUnderRoot ==
    (areq.pc = "done" /\ areq.out.status = 200) =>
        /\ Len(areq.out.served) > Len(ArtifactRoot)
        /\ IsPrefix(ArtifactRoot, areq.out.served)

====
